---------------------------- MODULE Spec2Model ----------------------------
(***************************************************************************)
(* Model of the media-acquisition pipeline of the subreddit scraper:       *)
(* the in-memory OAuth token cache and getRedditAccessToken, the listing   *)
(* fetch of scrapeTrendyImages with its error handling, and the per-post   *)
(* media classification with de-duplication.                               *)
(*                                                                         *)
(* Strings that the code inspects (includes, endsWith, a regular           *)
(* expression, new URL) are sequences of tokens: a token is a run of       *)
(* characters that no inspected pattern splits, so a substring test is a   *)
(* test for a contiguous run of tokens.  Opaque strings (titles,           *)
(* permalinks) are TLA+ strings.  A nullable value is <<>> (null or        *)
(* undefined) or <<v>>.                                                    *)
(***************************************************************************)
EXTENDS Integers, Sequences, FiniteSets, TLC

(***************************************************************************)
(* String helpers                                                          *)
(***************************************************************************)
None == <<>>

Some(v) == <<v>>

\* String.prototype.includes: m occurs in s as a contiguous run.
Includes(s, m) ==
  \E i \in 1..(Len(s) - Len(m) + 1) : SubSeq(s, i, i + Len(m) - 1) = m

\* String.prototype.endsWith
EndsWith(s, m) ==
  /\ Len(s) >= Len(m)
  /\ SubSeq(s, Len(s) - Len(m) + 1, Len(s)) = m

\* Case folding of the tokens that occur with upper-case letters.
Lower(t) ==
  CASE t = ".JPG" -> ".jpg"
    [] t = ".PNG" -> ".png"
    [] t = "R" -> "r"
    [] t = "I.REDD.IT" -> "i.redd.it"
    [] OTHER -> t

\* /\.(jpg|jpeg|png|gif)$/i.test(url)
ImageExtensions == {".jpg", ".jpeg", ".png", ".gif"}

HasImageExtension(url) ==
  /\ Len(url) > 0
  /\ Lower(url[Len(url)]) \in ImageExtensions

(***************************************************************************)
(* Media URLs and listing entries                                          *)
(***************************************************************************)
UrlEmpty == <<>>

UrlImgA == <<"https:", "//", "i.redd.it", "/", "abc", ".jpg">>

UrlImgB == <<"https:", "//", "i.redd.it", "/", "x", ".PNG">>

UrlHinted == <<"https:", "//", "imgur.com", "/", "pic">>

UrlGalleryJpg == <<"https:", "//", "www.reddit.com", "/", "gallery", "/", "g1", ".jpg">>

UrlPage == <<"https:", "//", "example.com", "/", "page">>

UrlGifv == <<"https:", "//", "imgur.com", "/", "a", ".gifv">>

UrlVideo == <<"https:", "//", "v.redd.it", "/", "v1", "/", "DASH_720", ".mp4">>

UrlRedgifsWatch == <<"https:", "//", "redgifs", ".com", "/", "watch", "/", "w">>

UrlRedgifsEmbed == <<"https:", "//", "redgifs", ".com", "/", "ifr", "/", "w">>

UrlOtherEmbed == <<"https:", "//", "example.com", "/", "embed">>

UrlRedgifsPreview == <<"https:", "//", "preview.redd.it", "/", "redgifs", "-w", ".mp4">>

UrlPreview == <<"https:", "//", "preview.redd.it", "/", "p", ".mp4">>

\* RedditPostData, the fields the scraper reads.
PostData(title, permalink, url, hint, isVideo, isGallery, stickied, domain, videoFallback, provider, embedUrl, previewFallback) ==
  [ title |-> title, permalink |-> permalink, url |-> url, post_hint |-> hint,
    is_video |-> isVideo, is_gallery |-> isGallery, stickied |-> stickied,
    domain |-> domain, video_fallback_url |-> videoFallback,
    provider_name |-> provider, media_domain_url |-> embedUrl,
    preview_fallback_url |-> previewFallback ]

\* RedditListingChild: kind and (possibly missing) data.
Child(kind, data) == [ kind |-> kind, data |-> data ]

(***************************************************************************)
(* The classifier: the if / else-if chain of the forEach callback          *)
(***************************************************************************)
Found(url, type) == Some([ mediaUrl |-> url, mediaType |-> type ])

\* Rule 3: the Redgifs link, most specific first.
RedgifsUrl(d) ==
  IF d.media_domain_url # None
     /\ Includes(d.media_domain_url[1], <<"redgifs", ".com">>)
    THEN d.media_domain_url[1]
  ELSE IF d.preview_fallback_url # None
          /\ d.preview_fallback_url[1] # UrlEmpty
          /\ Includes(d.preview_fallback_url[1], <<"redgifs">>)
    THEN d.preview_fallback_url[1]
  ELSE d.url

\* A present and non-empty optional URL (a truthy optional chain).
Truthy(opt) == opt # None /\ opt[1] # UrlEmpty

\* The chain with the hosted-video test ahead of the direct-image test.
ClassifyPostVideoFirst(d) ==
  IF d.is_video /\ Truthy(d.video_fallback_url)
    THEN Found(d.video_fallback_url[1], "video")
  ELSE IF d.post_hint = "image" \/ HasImageExtension(d.url)
    THEN IF d.url # UrlEmpty /\ ~Includes(d.url, <<"gallery">>)
           THEN Found(d.url, "image")
           ELSE None
  ELSE None

ClassifyPost(d) ==
  IF d.post_hint = "image" \/ HasImageExtension(d.url)
    THEN IF d.url # UrlEmpty /\ ~Includes(d.url, <<"gallery">>)
           THEN Found(d.url, "image")
           ELSE None
  ELSE IF d.is_video /\ Truthy(d.video_fallback_url)
    THEN Found(d.video_fallback_url[1], "video")
  ELSE IF d.domain = "redgifs.com" \/ d.provider_name = "Redgifs"
    THEN Found(RedgifsUrl(d), "redgifs")
  ELSE IF d.post_hint = "rich:video" \/ d.post_hint = "link"
    THEN IF d.domain = "gfycat.com" /\ Truthy(d.preview_fallback_url)
           THEN Found(d.preview_fallback_url[1], "video")
         ELSE IF /\ d.domain = "imgur.com"
                 /\ EndsWith(d.url, <<".gifv">>)
                 /\ Truthy(d.preview_fallback_url)
           THEN Found(d.preview_fallback_url[1], "video")
         ELSE None
  ELSE None

(***************************************************************************)
(* The forEach callback over listing.data.children                         *)
(***************************************************************************)
\* mediaPosts, skippedCount, and for each pushed post the index of the
\* listing entry it was built from.
EmptyAcc == [ mediaPosts |-> <<>>, skippedCount |-> 0, origins |-> <<>> ]

Skip(acc) == [ acc EXCEPT !.skippedCount = @ + 1 ]

\* A de-duplication that compares the wrong field of the pushed posts.
AlreadyPushedByRedditUrl(posts, url) ==
  \E k \in 1..Len(posts) : posts[k].redditUrl = url

\* mediaPosts.some(p => p.mediaUrl === foundMedia.mediaUrl)
AlreadyPushed(posts, url) == \E k \in 1..Len(posts) : posts[k].mediaUrl = url

\* const redditUrl = `https://www.reddit.com${postData.permalink}`
RedditUrl(d) == <<"https://www.reddit.com", d.permalink>>

\* postData.title || 'Untitled Post'
TitleOf(d) == IF d.title = "" THEN "Untitled Post" ELSE d.title

\* An early return that lets stickied posts through.
SkippedEarlyButStickied(child) ==
  \/ child.kind # "t3"
  \/ child.data = None
  \/ child.data[1].is_gallery

\* The entries the callback returns from before classifying.
SkippedEarly(child) ==
  \/ child.kind # "t3"
  \/ child.data = None
  \/ child.data[1].stickied
  \/ child.data[1].is_gallery

\* The tail without its test of the media type.
KeepFoundAnyType(acc, d, found, index) ==
  IF found # None /\ found[1].mediaUrl # UrlEmpty
    THEN IF ~AlreadyPushed(acc.mediaPosts, found[1].mediaUrl)
           THEN [ acc EXCEPT
                    !.mediaPosts = Append(@, [ mediaUrl |-> found[1].mediaUrl,
                                               mediaType |-> found[1].mediaType,
                                               title |-> TitleOf(d),
                                               redditUrl |-> RedditUrl(d) ]),
                    !.origins = Append(@, index) ]
           ELSE Skip(acc)
    ELSE Skip(acc)

\* The tail with a later entry of the same URL taking the place of the post
\* pushed for the earlier one.
KeepFoundLatest(acc, d, found, index) ==
  IF found # None /\ found[1].mediaUrl # UrlEmpty /\ found[1].mediaType = "image"
    THEN IF ~AlreadyPushed(acc.mediaPosts, found[1].mediaUrl)
           THEN [ acc EXCEPT
                    !.mediaPosts = Append(@, [ mediaUrl |-> found[1].mediaUrl,
                                               mediaType |-> found[1].mediaType,
                                               title |-> TitleOf(d),
                                               redditUrl |-> RedditUrl(d) ]),
                    !.origins = Append(@, index) ]
           ELSE LET k == CHOOSE k \in 1..Len(acc.mediaPosts) : acc.mediaPosts[k].mediaUrl = found[1].mediaUrl
                IN [ acc EXCEPT
                       !.mediaPosts[k] = [ mediaUrl |-> found[1].mediaUrl,
                                           mediaType |-> found[1].mediaType,
                                           title |-> TitleOf(d),
                                           redditUrl |-> RedditUrl(d) ],
                       !.origins[k] = index,
                       !.skippedCount = @ + 1 ]
    ELSE Skip(acc)

\* The tail of the callback: keep an image with a URL not seen before.
KeepFound(acc, d, found, index) ==
  IF found # None /\ found[1].mediaUrl # UrlEmpty /\ found[1].mediaType = "image"
    THEN IF ~AlreadyPushed(acc.mediaPosts, found[1].mediaUrl)
           THEN [ acc EXCEPT
                    !.mediaPosts = Append(@, [ mediaUrl |-> found[1].mediaUrl,
                                               mediaType |-> found[1].mediaType,
                                               title |-> TitleOf(d),
                                               redditUrl |-> RedditUrl(d) ]),
                    !.origins = Append(@, index) ]
           ELSE Skip(acc)
    ELSE Skip(acc)

ProcessChild(acc, child, index) ==
  IF SkippedEarly(child)
    THEN Skip(acc)
    ELSE KeepFound(acc, child.data[1], ClassifyPost(child.data[1]), index)

RECURSIVE ForEach(_, _, _)
\* children.forEach(callback), from entry number index on.
ForEach(acc, kids, index) ==
  IF index > Len(kids)
    THEN acc
    ELSE ForEach(ProcessChild(acc, kids[index], index), kids, index + 1)

ScrapeChildren(kids) == ForEach(EmptyAcc, kids, 1)

(***************************************************************************)
(* Error messages, as token sequences                                      *)
(***************************************************************************)
\* `${response.status}`
StatusText(status) ==
  CASE status = 200 -> "200"
    [] status = 401 -> "401"
    [] status = 403 -> "403"
    [] status = 404 -> "404"
    [] status = 429 -> "429"
    [] status = 500 -> "500"
    [] OTHER -> "other"

\* response.ok
IsOk(status) == status >= 200 /\ status <= 299

MsgCredentialsMissing ==
  <<"Reddit API ", "credentials are missing", ". Please configure them in your .env file.">>

MsgGrantStatus(status) ==
  <<"Failed to authenticate", " with Reddit API. Status: ", StatusText(status)>>

MsgGrantUnauthorized(status) ==
  MsgGrantStatus(status) \o <<" ", "(", "Unauthorized", ")", ". Please verify your REDDIT_CLIENT_ID and REDDIT_CLIENT_SECRET.">>

MsgInvalidToken == <<"Failed to get a valid bearer token from Reddit.">>

MsgCouldNotConnect == <<"Could not connect", " to Reddit API to get access token.">>

MsgInvalidUrl ==
  <<"Invalid subreddit URL format", ". Please use the format: https://www.reddit.com/r/subredditname/">>

MsgListing401 ==
  <<"Reddit API authentication failed ", "(", "401", " ", "Unauthorized", ")", ". Access token might be expired or invalid. Please ensure credentials in .env are correct.">>

MsgListing404(name) ==
  <<"Subreddit 'r/", name, "' not found or is private ", "(", "404", ")", ".">>

MsgListing403(name) ==
  <<"Access denied ", "(", "403", " ", "Forbidden", ")", " when fetching r/", name, ". Possible reasons: Invalid API key permissions, blocked User-Agent, IP restrictions, or subreddit access rules.">>

MsgListing429 ==
  <<"Rate limited by Reddit ", "(", "429", " ", "Too Many Requests", ")", ". Please wait and try again later.">>

\* The number of characters of a token of a response body.
CharLen(t) ==
  CASE t = "(" -> 1
    [] t = ")" -> 1
    [] t = "404" -> 3
    [] t = "Internal Server Error" -> 21
    [] t = "<html>, 100 characters long" -> 100
    [] OTHER -> 1

DetailsMax == 100

RECURSIVE Substring(_, _)
\* errorBody.substring(0, n): the tokens that fit whole in the first n
\* characters (a token cut in two matches no pattern).
Substring(s, n) ==
  IF s = <<>> \/ CharLen(Head(s)) > n
    THEN <<>>
    ELSE <<Head(s)>> \o Substring(Tail(s), n - CharLen(Head(s)))

MsgListingStatus(status, errorBody) ==
  <<"Failed to fetch data from Reddit API. Status: ", StatusText(status), ". Details: ">>
    \o Substring(errorBody, DetailsMax) \o <<"...">>

MsgInvalidStructure == <<"Received ", "invalid data structure", " from Reddit API.">>

MsgUnexpected(name) ==
  <<"An unexpected error occurred while processing data from Reddit API for r/", name, ".">>

\* The messages of the errors the runtime raises: a rejected fetch or
\* body read, and a body that is not JSON.
MsgFetchFailed == <<"fetch failed">>

MsgNotJson == <<"Unexpected token < in JSON at position 0">>

(***************************************************************************)
(* The catch blocks                                                        *)
(***************************************************************************)
\* A catch that throws every error on as it came.
GrantCatchRethrowing(message) == message

\* getRedditAccessToken's catch: the error it throws on.
GrantCatch(message) ==
  IF Includes(message, <<"Failed to authenticate">>)
    THEN message
  ELSE IF Includes(message, <<"Reddit API ", "credentials are missing">>)
    THEN message
  ELSE MsgCouldNotConnect

\* The list of the catch without its "(404)" entry.
IsSpecificErrorBut404(message) ==
  \/ Includes(message, <<"credentials are missing">>)
  \/ Includes(message, <<"Failed to authenticate">>)
  \/ Includes(message, <<"401", " ", "Unauthorized">>)
  \/ Includes(message, <<"Could not connect">>)
  \/ Includes(message, <<"Invalid subreddit URL format">>)
  \/ Includes(message, <<"(", "403", ")">>)
  \/ Includes(message, <<"(", "429", ")">>)
  \/ Includes(message, <<"invalid data structure">>)

\* The messages scrapeTrendyImages' catch throws on unchanged.
IsSpecificError(message) ==
  \/ Includes(message, <<"credentials are missing">>)
  \/ Includes(message, <<"Failed to authenticate">>)
  \/ Includes(message, <<"401", " ", "Unauthorized">>)
  \/ Includes(message, <<"Could not connect">>)
  \/ Includes(message, <<"Invalid subreddit URL format">>)
  \/ Includes(message, <<"(", "404", ")">>)
  \/ Includes(message, <<"(", "403", ")">>)
  \/ Includes(message, <<"(", "429", ")">>)
  \/ Includes(message, <<"invalid data structure">>)

\* scrapeTrendyImages' catch: the error it throws on.
ListingCatch(message, name) ==
  IF IsSpecificError(message) THEN message ELSE MsgUnexpected(name)

\* The error thrown for a listing response that is not ok.
ListingStatusError(status, errorBody, name) ==
  IF status = 401 THEN MsgListing401
  ELSE IF status = 404 THEN MsgListing404(name)
  ELSE IF status = 403 THEN MsgListing403(name)
  ELSE IF status = 429 THEN MsgListing429
  ELSE MsgListingStatus(status, errorBody)

(***************************************************************************)
(* extractSubredditName                                                    *)
(***************************************************************************)
UrlSchemes == {"https:", "http:", "ftp:"}

\* The index of the first "/" after the host, or Len(s) + 1.
HostEnd(s) ==
  IF \E i \in 4..Len(s) : s[i] = "/"
    THEN CHOOSE i \in 4..Len(s) : s[i] = "/" /\ \A j \in 4..(i - 1) : s[j] # "/"
    ELSE Len(s) + 1

\* new URL(s): None when it throws.
ParseUrl(s) ==
  IF Len(s) >= 3 /\ Lower(s[1]) \in UrlSchemes /\ s[2] = "//" /\ s[3] # "/"
    THEN Some([ protocol |-> Lower(s[1]),
                hostname |-> [ i \in 1..(HostEnd(s) - 3) |-> Lower(s[i + 2]) ],
                pathname |-> SubSeq(s, HostEnd(s), Len(s)) ])
    ELSE None

IsSegment(t) == t # "/"

\* pathname.split('/').filter(part => part !== '')
PathParts(pathname) == SelectSeq(pathname, IsSegment)

\* The extraction without its test that the first path segment is 'r'.
ExtractSubredditNameAnyPrefix(url) ==
  IF ParseUrl(url) = None
    THEN None
    ELSE LET pathParts == PathParts(ParseUrl(url)[1].pathname)
         IN IF Len(pathParts) >= 2 THEN Some(pathParts[2]) ELSE None

ExtractSubredditName(url) ==
  IF ParseUrl(url) = None
    THEN None
    ELSE LET pathParts == PathParts(ParseUrl(url)[1].pathname)
         IN IF Len(pathParts) >= 2 /\ Lower(pathParts[1]) = "r"
              THEN Some(pathParts[2])
              ELSE None

(***************************************************************************)
(* The media URL helpers of the server action                              *)
(***************************************************************************)
\* Set.prototype.has, on a Set kept as the sequence of its insertions.
Has(allowed, host) == \E i \in 1..Len(allowed) : allowed[i] = host

\* Set.prototype.add
Add(allowed, host) == IF Has(allowed, host) THEN allowed ELSE Append(allowed, host)

RECURSIVE AddAll(_, _)
\* hosts.forEach(host => allowed.add(host))
AddAll(allowed, hosts) ==
  IF hosts = <<>> THEN allowed ELSE AddAll(Add(allowed, Head(hosts)), Tail(hosts))

IsHostname(hostname) == hostname # <<>>

StaticHostnames ==
  << <<"i.redd.it">>, <<"preview.redd.it">>, <<"imgur.com">>, <<"files.catbox.moe">> >>

PlaceholderHostname == <<"picsum.photos">>

\* remotePatterns: None when the configuration has none, else the hostname
\* of each pattern (empty when the pattern has none).
GetAllowedHostnames(remotePatterns) ==
  LET configHostnames ==
        IF remotePatterns = None THEN <<>> ELSE SelectSeq(remotePatterns[1], IsHostname)
  IN Add(AddAll(StaticHostnames, configHostnames), PlaceholderHostname)

placeholderImageUrl ==
  <<"https:", "//", "picsum.photos", "/", "seed", "/", "placeholder", "/", "400", "/", "400">>

\* The check without its test of the protocol.
IsValidAndAllowedUrlAnyProtocol(mediaUrl, allowed) ==
  IF mediaUrl = UrlEmpty
    THEN FALSE
  ELSE IF ParseUrl(mediaUrl) = None
    THEN FALSE
  ELSE Has(allowed, ParseUrl(mediaUrl)[1].hostname)

IsValidAndAllowedUrl(mediaUrl, allowed) ==
  IF mediaUrl = UrlEmpty
    THEN FALSE
  ELSE IF ParseUrl(mediaUrl) = None
    THEN FALSE
  ELSE LET url == ParseUrl(mediaUrl)[1]
       IN /\ url.protocol = "http:" \/ url.protocol = "https:"
          /\ Has(allowed, url.hostname)

NoneSanitized == [ sanitizedImages |-> <<>>, invalidUrlCount |-> 0, nonImageCount |-> 0 ]

\* The loop body with the substitution its comment block holds: an image
\* whose URL fails the check is kept under the placeholder URL.
SanitizePostWithPlaceholder(st, post, allowed) ==
  IF post.mediaType # "image"
    THEN [ st EXCEPT !.nonImageCount = @ + 1 ]
  ELSE IF IsValidAndAllowedUrl(post.mediaUrl, allowed)
    THEN [ st EXCEPT !.sanitizedImages = Append(@, post) ]
  ELSE [ st EXCEPT !.invalidUrlCount = @ + 1,
                   !.sanitizedImages = Append(@, [ post EXCEPT !.mediaUrl = placeholderImageUrl ]) ]

\* The body of the for...of loop, on one post.
SanitizePost(st, post, allowed) ==
  IF post.mediaType # "image"
    THEN [ st EXCEPT !.nonImageCount = @ + 1 ]
  ELSE IF IsValidAndAllowedUrl(post.mediaUrl, allowed)
    THEN [ st EXCEPT !.sanitizedImages = Append(@, post) ]
  ELSE [ st EXCEPT !.invalidUrlCount = @ + 1 ]

RECURSIVE SanitizeLoop(_, _, _)
SanitizeLoop(st, media, allowed) ==
  IF media = <<>>
    THEN st
    ELSE SanitizeLoop(SanitizePost(st, Head(media), allowed), Tail(media), allowed)

\* The loop started at the second post.
SanitizeSkippingFirst(media, allowed) ==
  IF media = <<>>
    THEN <<>>
    ELSE SanitizeLoop(NoneSanitized, Tail(media), allowed).sanitizedImages

SanitizeAndFilterImages(media, allowed) ==
  SanitizeLoop(NoneSanitized, media, allowed).sanitizedImages

(***************************************************************************)
(* scrapeSubredditAction: its two schemas, its messages and the states it  *)
(* returns                                                                 *)
(***************************************************************************)
Failure(message) == [ success |-> FALSE, data |-> None, message |-> message ]

Success(data) == [ success |-> TRUE, data |-> Some(data), message |-> <<>> ]

\* urlSchema.safeParse, on the value of formData.get: None when the field
\* is absent.
UrlSchema(subredditUrl) ==
  IF subredditUrl = None
    THEN Failure(<<"Expected string, received null">>)
  ELSE IF ParseUrl(subredditUrl[1]) = None
    THEN Failure(<<"Please enter a valid URL.">>)
  ELSE IF ~Includes(subredditUrl[1], <<"reddit.com", "/", "r", "/">>)
    THEN Failure(<<"Please enter a valid Reddit subreddit URL (e.g., https://www.reddit.com/r/...).">>)
  ELSE Success(subredditUrl[1])

\* Number(limitValue) of z.coerce, in tenths: Number(null) is 0.
CoerceNumber(limitValue) ==
  CASE limitValue = None -> [ nan |-> FALSE, tenths |-> 0 ]
    [] limitValue = Some("0") -> [ nan |-> FALSE, tenths |-> 0 ]
    [] limitValue = Some("2.5") -> [ nan |-> FALSE, tenths |-> 25 ]
    [] limitValue = Some("25") -> [ nan |-> FALSE, tenths |-> 250 ]
    [] limitValue = Some("100") -> [ nan |-> FALSE, tenths |-> 1000 ]
    [] limitValue = Some("101") -> [ nan |-> FALSE, tenths |-> 1010 ]
    [] OTHER -> [ nan |-> TRUE, tenths |-> 0 ]

\* limitSchema.safeParse: the first check that fails gives the message.
LimitSchema(limitValue) ==
  LET n == CoerceNumber(limitValue)
  IN IF n.nan
       THEN Failure(<<"Expected number, received nan">>)
     ELSE IF n.tenths % 10 # 0
       THEN Failure(<<"Limit must be a whole number.">>)
     ELSE IF n.tenths <= 0
       THEN Failure(<<"Limit must be positive.">>)
     ELSE IF n.tenths < 1 * 10
       THEN Failure(<<"Limit must be at least 1.">>)
     ELSE IF n.tenths > 100 * 10
       THEN Failure(<<"Maximum limit is 100.">>)
     ELSE Success(n.tenths \div 10)

MsgNotConfigured ==
  <<"Reddit API credentials (REDDIT_CLIENT_ID, REDDIT_CLIENT_SECRET) are not configured on the server. Please set them in the .env file.">>

MsgNullResult ==
  <<"Failed to retrieve data from Reddit API. The subreddit might be inaccessible or a critical API error occurred.">>

\* validatedUrl.split('/r/')[1]?.split('/')[0] || 'the subreddit'
NameForMessage(validatedUrl) ==
  LET starts == { i \in 1..(Len(validatedUrl) - 2) : SubSeq(validatedUrl, i, i + 2) = <<"/", "r", "/">> }
  IN IF starts = {}
       THEN <<"the subreddit">>
       ELSE LET first == CHOOSE i \in starts : \A j \in starts : i <= j
                rest == SubSeq(validatedUrl, first + 3, Len(validatedUrl))
            IN IF rest = <<>> \/ Head(rest) = "/" THEN <<"the subreddit">> ELSE <<Head(rest)>>

RECURSIVE Join(_)
\* Array.from(allowedHostnames).join(', ')
Join(allowed) ==
  IF allowed = <<>> THEN <<>>
  ELSE IF Len(allowed) = 1 THEN Head(allowed)
  ELSE Head(allowed) \o <<", ">> \o Join(Tail(allowed))

MsgFoundZero(validatedUrl) ==
  <<"Found 0 suitable images in r/">> \o NameForMessage(validatedUrl) \o <<" with the current filters.">>

MsgNoneMatched(count, allowed) ==
  <<"Reddit API returned ", ToString(count), " posts, but none contained direct image links matching the criteria (e.g., not videos, gifs, galleries, or filtered by allowed domains: ">>
    \o Join(allowed) \o <<")">>

MsgSuccess(count) == <<"Successfully fetched ", ToString(count), " images.">>

\* The message of the catch at 207-226, for an Error thrown with message.
ActionCatch(message) ==
  IF Includes(message, <<"401", " ", "Unauthorized">>)
    THEN <<"Authentication failed with Reddit API (401). Please check your REDDIT_CLIENT_ID and REDDIT_CLIENT_SECRET in the .env file. Details: ">> \o message
  ELSE IF Includes(message, <<"403", " ", "Forbidden">>)
    THEN <<"Access denied by Reddit API (403). Check API key permissions, User-Agent, or potential IP restrictions. Details: ">> \o message
  ELSE IF Includes(message, <<"404">>)
    THEN <<"Subreddit not found or private (404). Please check the URL. Details: ">> \o message
  ELSE IF Includes(message, <<"429", " ", "Too Many Requests">>)
    THEN <<"Rate limited by Reddit API (429). Please wait before trying again. Details: ">> \o message
  ELSE message

\* The error state with the previous state's media left in place.
ErrorStateKeepingMedia(prev, message, timestamp) ==
  [ prev EXCEPT !.error = Some(message), !.message = None, !.timestamp = timestamp ]

\* An error state that takes over the message of the previous state.
ErrorStateKeepingMessage(prev, message, timestamp) ==
  [ prev EXCEPT !.media = None, !.error = Some(message), !.timestamp = timestamp ]

\* { ...prevState, media: null, error, message: null, timestamp }
ErrorState(prev, message, timestamp) ==
  [ prev EXCEPT !.media = None, !.error = Some(message), !.message = None, !.timestamp = timestamp ]

\* The state returned at 188-193 and 200-205.
ResultState(media, message, timestamp) ==
  [ media |-> Some(media), error |-> None, message |-> Some(message), timestamp |-> timestamp ]

\* Lines 162-205, on what scrapeTrendyImages returned (None for null) and
\* on what getAllowedHostnames returns.
AfterScrape(prev, validatedUrl, result, allowed, timestamp) ==
  IF result = None
    THEN ErrorState(prev, MsgNullResult, timestamp)
    ELSE LET filteredImages == SanitizeAndFilterImages(result[1], allowed)
         IN IF Len(filteredImages) = 0
              THEN ResultState(<<>>,
                               IF Len(result[1]) > 0
                                 THEN MsgNoneMatched(Len(result[1]), allowed)
                                 ELSE MsgFoundZero(validatedUrl),
                               timestamp)
              ELSE ResultState(filteredImages, MsgSuccess(Len(filteredImages)), timestamp)

(***************************************************************************)
(* Bounds and input sets                                                   *)
(***************************************************************************)
MaxInvocations == 2

MaxTicks == 2

MaxChildren == 2

\* Two invocations may be in flight at once: each await is a point where
\* the other one runs.
Procs == {"a", "b"}

SafetyMarginSeconds == 300

MsPerSecond == 1000

MaxLimit == 100

\* process.env: "" is an unset variable.
Environments ==
  { [ REDDIT_CLIENT_ID |-> "id", REDDIT_CLIENT_SECRET |-> "secret" ],
    [ REDDIT_CLIENT_ID |-> "", REDDIT_CLIENT_SECRET |-> "secret" ],
    [ REDDIT_CLIENT_ID |-> "id", REDDIT_CLIENT_SECRET |-> "" ] }

SubredditUrls ==
  { <<"https:", "//", "www.reddit.com", "/", "r", "/", "pics", "/">>,
    <<"https:", "//", "www.reddit.com", "/", "R", "/", "pics">>,
    <<"https:", "//", "www.reddit.com", "/", "r", "/">>,
    <<"https:", "//", "www.reddit.com", "/", "user", "/", "bob">>,
    <<"www.reddit.com", "/", "r", "/", "pics">> }

Limits == {25, 101}

MaxPosts == 2

UrlFtp == <<"ftp:", "//", "i.redd.it", "/", "abc", ".jpg">>

UrlNoScheme == <<"i.redd.it", "/", "abc", ".jpg">>

UrlUpperHost == <<"https:", "//", "I.REDD.IT", "/", "abc", ".jpg">>

UrlHttp == <<"http:", "//", "preview.redd.it", "/", "abc", ".jpg">>

\* MediaPost, of any media type and with any URL.
SanitizerPosts ==
  [ mediaUrl : {UrlEmpty, UrlImgA, UrlHttp, UrlPage, UrlFtp, UrlNoScheme, UrlUpperHost, placeholderImageUrl},
    mediaType : {"image", "video"},
    title : {"cat"},
    redditUrl : {<<"https://www.reddit.com", "/r/pics/1">>} ]

\* images.remotePatterns of the configuration
RemotePatterns ==
  { None,
    Some(<< <<"example.com">>, <<>>, <<"i.redd.it">> >>) }

AllowedHostnameSets ==
  { GetAllowedHostnames(patterns) : patterns \in RemotePatterns }
    \cup { <<>>, << <<"example.com">> >> }

GrantStatuses == {200, 401, 500}

ListingStatuses == {200, 401, 403, 404, 429, 500}

ErrorBodies ==
  { <<>>,
    <<"Internal Server Error">>,
    <<"(", "404", ")">>,
    <<"<html>, 100 characters long", "(", "404", ")">> }

\* RedditTokenResponse
TokenResponses ==
  [ token_type : {"bearer", "mac"},
    access_token : {"", "tokA", "tokB"},
    expires_in : {299, 302} ]

ImagePost(title, permalink, url, stickied) ==
  PostData(title, permalink, url, "image", FALSE, FALSE, stickied, "i.redd.it", None, "none", None, None)

\* The entries of the listings the endpoint answers with.
FeedChildren ==
  { Child("t3", Some(ImagePost("cat", "/r/pics/1", UrlImgA, FALSE))),
    Child("t3", Some(ImagePost("dog", "/r/pics/2", UrlImgA, FALSE))),
    Child("t3", Some(ImagePost("pinned", "/r/pics/3", UrlImgB, TRUE))) }

SeqsUpTo(S, n) == UNION { [ 1..k -> S ] : k \in 0..n }

\* RedditApiResponse: kind, and data.children when present.
ListingBodies ==
  { [ kind |-> "Listing", data |-> Some([ children |-> Some(kids) ]) ] : kids \in SeqsUpTo(FeedChildren, MaxChildren) }
    \cup { [ kind |-> "t3", data |-> Some([ children |-> Some(<<>>) ]) ],
           [ kind |-> "Listing", data |-> None ],
           [ kind |-> "Listing", data |-> Some([ children |-> None ]) ] }

(***************************************************************************)
(* State                                                                   *)
(***************************************************************************)
VARIABLES
  env,                \* process.env
  now,                \* Date.now(), in milliseconds
  redditAccessToken,  \* the cached token, or None
  tokenExpiryTime,    \* its expiry, or None
  pc,                 \* where each invocation of scrapeTrendyImages stands
  locals,             \* its subredditName and limit
  tokenResult,        \* how its getRedditAccessToken call settled
  response,           \* the responses it received from the two endpoints
  request,            \* its listing request in flight, or None
  requests,           \* the number of requests it sent to each endpoint
  outcome,            \* what it returned or threw
  started,            \* the number of invocations started
  children,           \* a listing's entries
  index,              \* the number of entries the forEach has visited
  acc,                \* mediaPosts, skippedCount and the posts' origins
  entry,              \* a post under classification
  classified,         \* whether the classifier ran on it
  foundMedia,         \* the classifier's result
  rawMedia,           \* the posts handed to sanitizeAndFilterImages
  allowedHostnames,   \* the hostnames handed to it
  sanitizedImages,    \* what it returned, or None before it ran
  sanitizedAgain,     \* what it returned for its own output, or None
  formData,           \* the form submitted to scrapeSubredditAction
  prevState,          \* the state handed to it
  actionPc,           \* where its invocation stands
  scraped,            \* how its scrapeTrendyImages call settled
  newState            \* the state it returned, or None

vars ==
  <<env, now, redditAccessToken, tokenExpiryTime, pc, locals, tokenResult,
    response, request, requests, outcome, started, children, index, acc,
    entry, classified, foundMedia, rawMedia, allowedHostnames,
    sanitizedImages, sanitizedAgain, formData, prevState, actionPc, scraped,
    newState>>

fetcherVars ==
  <<env, now, redditAccessToken, tokenExpiryTime, pc, locals, tokenResult,
    response, request, requests, outcome, started>>

listingVars == <<children, index, acc>>

classifierVars == <<entry, classified, foundMedia>>

sanitizerVars == <<rawMedia, allowedHostnames, sanitizedImages, sanitizedAgain>>

actionVars == <<formData, prevState, actionPc, scraped, newState>>

NoResponse == [ got |-> "none", status |-> 0 ]

NoLocals == [ subredditName |-> "", limit |-> 0 ]

NoRequests == [ grant |-> 0, listing |-> 0 ]

Pending == [ state |-> "pending", token |-> "", media |-> <<>>, error |-> <<>> ]

Resolved(token) == [ Pending EXCEPT !.state = "returned", !.token = token ]

Returned(media) == [ Pending EXCEPT !.state = "returned", !.media = media ]

Thrown(message) == [ Pending EXCEPT !.state = "thrown", !.error = message ]

FetcherInit ==
  /\ env \in Environments
  /\ now = 0
  /\ redditAccessToken = None
  /\ tokenExpiryTime = None
  /\ pc = [ p \in Procs |-> "idle" ]
  /\ locals = [ p \in Procs |-> NoLocals ]
  /\ tokenResult = [ p \in Procs |-> Pending ]
  /\ response = [ p \in Procs |-> [ grant |-> NoResponse, listing |-> NoResponse ] ]
  /\ request = [ p \in Procs |-> None ]
  /\ requests = [ p \in Procs |-> NoRequests ]
  /\ outcome = [ p \in Procs |-> Pending ]
  /\ started = 0

ListingInit ==
  /\ children = <<>>
  /\ index = 0
  /\ acc = EmptyAcc

ClassifierInit ==
  /\ entry = ImagePost("cat", "/r/pics/1", UrlImgA, FALSE)
  /\ classified = FALSE
  /\ foundMedia = None

\* initialState of the page: nothing fetched yet.
InitialState == [ media |-> None, error |-> None, message |-> None, timestamp |-> 0 ]

NoFormData == [ subredditUrl |-> None, limit |-> None ]

ActionInit ==
  /\ formData = NoFormData
  /\ prevState = InitialState
  /\ actionPc = "idle"
  /\ scraped = Pending
  /\ newState = None

SanitizerInit ==
  /\ rawMedia = <<>>
  /\ allowedHostnames = <<>>
  /\ sanitizedImages = None
  /\ sanitizedAgain = None

Init == FetcherInit /\ ListingInit /\ ClassifierInit /\ SanitizerInit /\ ActionInit

(***************************************************************************)
(* getRedditAccessToken and scrapeTrendyImages, one action per stretch of  *)
(* code between two awaits                                                 *)
(***************************************************************************)
\* A freshness test that still accepts the token at its expiry time.
CacheIsFreshAtExpiry ==
  /\ redditAccessToken # None
  /\ tokenExpiryTime # None
  /\ now <= tokenExpiryTime[1]

\* redditAccessToken && tokenExpiryTime && now < tokenExpiryTime
CacheIsFresh ==
  /\ redditAccessToken # None
  /\ redditAccessToken[1] # ""
  /\ tokenExpiryTime # None
  /\ tokenExpiryTime[1] # 0
  /\ now < tokenExpiryTime[1]

\* The test of the client id alone.
CredentialsMissingIdOnly == env.REDDIT_CLIENT_ID = ""

CredentialsMissing == env.REDDIT_CLIENT_ID = "" \/ env.REDDIT_CLIENT_SECRET = ""

\* The expiry without the safety margin.
ExpiryTimeWithoutMargin(expiresIn) == now + expiresIn * MsPerSecond

\* Date.now() + (tokenData.expires_in - 300) * 1000
ExpiryTime(expiresIn) == now + (expiresIn - SafetyMarginSeconds) * MsPerSecond

\* An invalidation that forgets to reset the two variables.
ClearCacheForgotten == UNCHANGED <<redditAccessToken, tokenExpiryTime>>

ClearCache ==
  /\ redditAccessToken' = None
  /\ tokenExpiryTime' = None

\* The token stored without its expiry.
StoreTokenOnly(tokenData) ==
  /\ redditAccessToken' = Some(tokenData.access_token)
  /\ UNCHANGED tokenExpiryTime

StoreToken(tokenData) ==
  /\ redditAccessToken' = Some(tokenData.access_token)
  /\ tokenExpiryTime' = Some(ExpiryTime(tokenData.expires_in))

\* The test of the token type alone.
IsInvalidTokenTypeOnly(tokenData) == tokenData.token_type # "bearer"

\* tokenData.token_type !== 'bearer' || !tokenData.access_token
IsInvalidToken(tokenData) ==
  tokenData.token_type # "bearer" \/ tokenData.access_token = ""

\* Math.min(limit, 100)
RequestLimit(limit) == IF limit < MaxLimit THEN limit ELSE MaxLimit

\* The call of scrapeTrendyImages, up to its first await: the subreddit
\* name, then getRedditAccessToken up to its return, its throw or its fetch.
Start(p, subredditUrl, limit) ==
  /\ pc[p] \in {"idle", "done"}
  /\ started < MaxInvocations
  /\ started' = started + 1
  /\ response' = [ response EXCEPT ![p] = [ grant |-> NoResponse, listing |-> NoResponse ] ]
  /\ request' = [ request EXCEPT ![p] = None ]
  /\ UNCHANGED <<env, now, redditAccessToken, tokenExpiryTime>>
  /\ LET name == ExtractSubredditName(subredditUrl)
     IN IF name = None
          THEN /\ pc' = [ pc EXCEPT ![p] = "done" ]
               /\ locals' = [ locals EXCEPT ![p] = NoLocals ]
               /\ tokenResult' = [ tokenResult EXCEPT ![p] = Pending ]
               /\ requests' = [ requests EXCEPT ![p] = NoRequests ]
               /\ outcome' = [ outcome EXCEPT ![p] = Thrown(MsgInvalidUrl) ]
          ELSE /\ locals' = [ locals EXCEPT ![p] = [ subredditName |-> name[1], limit |-> limit ] ]
               /\ outcome' = [ outcome EXCEPT ![p] = Pending ]
               /\ IF CacheIsFresh
                    THEN /\ pc' = [ pc EXCEPT ![p] = "tokenSettled" ]
                         /\ tokenResult' = [ tokenResult EXCEPT ![p] = Resolved(redditAccessToken[1]) ]
                         /\ requests' = [ requests EXCEPT ![p] = NoRequests ]
                  ELSE IF CredentialsMissing
                    THEN /\ pc' = [ pc EXCEPT ![p] = "tokenSettled" ]
                         /\ tokenResult' = [ tokenResult EXCEPT ![p] = Thrown(MsgCredentialsMissing) ]
                         /\ requests' = [ requests EXCEPT ![p] = NoRequests ]
                  ELSE /\ pc' = [ pc EXCEPT ![p] = "grantFetch" ]
                       /\ tokenResult' = [ tokenResult EXCEPT ![p] = Pending ]
                       /\ requests' = [ requests EXCEPT ![p] = [ grant |-> 1, listing |-> 0 ] ]

\* getRedditAccessToken throws out of its catch block: the cache is cleared.
GrantThrows(p, message) ==
  /\ ClearCache
  /\ tokenResult' = [ tokenResult EXCEPT ![p] = Thrown(GrantCatch(message)) ]
  /\ pc' = [ pc EXCEPT ![p] = "tokenSettled" ]

\* The grant request is answered.
GrantFetchResolves(p, status) ==
  /\ pc[p] = "grantFetch"
  /\ response' = [ response EXCEPT ![p].grant = [ got |-> "headers", status |-> status ] ]
  /\ pc' = [ pc EXCEPT ![p] = IF IsOk(status) THEN "grantJson" ELSE "grantText" ]
  /\ UNCHANGED <<env, now, redditAccessToken, tokenExpiryTime, locals, tokenResult, request, requests, outcome, started>>

\* A grant request that failed in transport is sent once more.
GrantFetchRejectsRetrying(p) ==
  /\ pc[p] = "grantFetch"
  /\ response' = [ response EXCEPT ![p].grant = [ got |-> "failed", status |-> 0 ] ]
  /\ IF requests[p].grant < 2
       THEN /\ requests' = [ requests EXCEPT ![p].grant = @ + 1 ]
            /\ UNCHANGED <<redditAccessToken, tokenExpiryTime, tokenResult, pc>>
       ELSE /\ GrantThrows(p, MsgFetchFailed)
            /\ UNCHANGED requests
  /\ UNCHANGED <<env, now, locals, request, outcome, started>>

\* The grant request fails in transport.
GrantFetchRejects(p) ==
  /\ pc[p] = "grantFetch"
  /\ response' = [ response EXCEPT ![p].grant = [ got |-> "failed", status |-> 0 ] ]
  /\ GrantThrows(p, MsgFetchFailed)
  /\ UNCHANGED <<env, now, locals, request, requests, outcome, started>>

\* The body of a grant response that is not ok has been read (or its
\* reading failed).
GrantText(p, bodyRead) ==
  /\ pc[p] = "grantText"
  /\ LET status == response[p].grant.status
     IN IF bodyRead
          THEN /\ response' = [ response EXCEPT ![p].grant.got = "body" ]
               /\ GrantThrows(p, IF status = 401 THEN MsgGrantUnauthorized(status) ELSE MsgGrantStatus(status))
          ELSE /\ response' = [ response EXCEPT ![p].grant.got = "failed" ]
               /\ GrantThrows(p, MsgFetchFailed)
  /\ UNCHANGED <<env, now, locals, request, requests, outcome, started>>

\* The body of an ok grant response has been parsed.
GrantJson(p, tokenData) ==
  /\ pc[p] = "grantJson"
  /\ response' = [ response EXCEPT ![p].grant.got = "body" ]
  /\ IF IsInvalidToken(tokenData)
       THEN GrantThrows(p, MsgInvalidToken)
       ELSE /\ StoreToken(tokenData)
            /\ tokenResult' = [ tokenResult EXCEPT ![p] = Resolved(tokenData.access_token) ]
            /\ pc' = [ pc EXCEPT ![p] = "tokenSettled" ]
  /\ UNCHANGED <<env, now, locals, request, requests, outcome, started>>

\* The body of an ok grant response is not JSON, or its reading failed.
GrantJsonRejects(p) ==
  /\ pc[p] = "grantJson"
  /\ response' = [ response EXCEPT ![p].grant.got = "failed" ]
  /\ GrantThrows(p, MsgNotJson)
  /\ UNCHANGED <<env, now, locals, request, requests, outcome, started>>

\* The listing request sent with the token the cache holds at that time, not
\* with the one getRedditAccessToken returned.
TokenSettledReadingCache(p) ==
  /\ pc[p] = "tokenSettled"
  /\ IF tokenResult[p].state = "thrown"
       THEN /\ outcome' = [ outcome EXCEPT ![p] = Thrown(tokenResult[p].error) ]
            /\ locals' = [ locals EXCEPT ![p] = NoLocals ]
            /\ pc' = [ pc EXCEPT ![p] = "done" ]
            /\ UNCHANGED <<request, requests>>
       ELSE /\ request' = [ request EXCEPT ![p] =
                 Some([ subreddit |-> locals[p].subredditName,
                        limit |-> RequestLimit(locals[p].limit),
                        bearer |-> IF redditAccessToken = None THEN "" ELSE redditAccessToken[1] ]) ]
            /\ requests' = [ requests EXCEPT ![p].listing = @ + 1 ]
            /\ pc' = [ pc EXCEPT ![p] = "listingFetch" ]
            /\ UNCHANGED <<outcome, locals>>
  /\ tokenResult' = [ tokenResult EXCEPT ![p] = Pending ]
  /\ UNCHANGED <<env, now, redditAccessToken, tokenExpiryTime, response, started>>

\* scrapeTrendyImages resumes after await getRedditAccessToken(): it throws
\* the error on, or sends the listing request.
TokenSettled(p) ==
  /\ pc[p] = "tokenSettled"
  /\ IF tokenResult[p].state = "thrown"
       THEN /\ outcome' = [ outcome EXCEPT ![p] = Thrown(tokenResult[p].error) ]
            /\ locals' = [ locals EXCEPT ![p] = NoLocals ]
            /\ pc' = [ pc EXCEPT ![p] = "done" ]
            /\ UNCHANGED <<request, requests>>
       ELSE /\ request' = [ request EXCEPT ![p] =
                 Some([ subreddit |-> locals[p].subredditName,
                        limit |-> RequestLimit(locals[p].limit),
                        bearer |-> tokenResult[p].token ]) ]
            /\ requests' = [ requests EXCEPT ![p].listing = @ + 1 ]
            /\ pc' = [ pc EXCEPT ![p] = "listingFetch" ]
            /\ UNCHANGED <<outcome, locals>>
  /\ tokenResult' = [ tokenResult EXCEPT ![p] = Pending ]
  /\ UNCHANGED <<env, now, redditAccessToken, tokenExpiryTime, response, started>>

\* scrapeTrendyImages throws out of its catch block.
ListingThrows(p, message) ==
  /\ outcome' = [ outcome EXCEPT ![p] = Thrown(ListingCatch(message, locals[p].subredditName)) ]
  /\ locals' = [ locals EXCEPT ![p] = NoLocals ]
  /\ pc' = [ pc EXCEPT ![p] = "done" ]

\* The listing request is answered.
ListingFetchResolves(p, status) ==
  /\ pc[p] = "listingFetch"
  /\ response' = [ response EXCEPT ![p].listing = [ got |-> "headers", status |-> status ] ]
  /\ request' = [ request EXCEPT ![p] = None ]
  /\ pc' = [ pc EXCEPT ![p] = IF IsOk(status) THEN "listingJson" ELSE "listingText" ]
  /\ UNCHANGED <<env, now, redditAccessToken, tokenExpiryTime, locals, tokenResult, requests, outcome, started>>

\* The listing request fails in transport.
ListingFetchRejects(p) ==
  /\ pc[p] = "listingFetch"
  /\ response' = [ response EXCEPT ![p].listing = [ got |-> "failed", status |-> 0 ] ]
  /\ request' = [ request EXCEPT ![p] = None ]
  /\ ListingThrows(p, MsgFetchFailed)
  /\ UNCHANGED <<env, now, redditAccessToken, tokenExpiryTime, tokenResult, requests, started>>

\* The handler with no invalidation of the cache on a 401.
ListingTextKeepsCache(p, errorBody) ==
  /\ pc[p] = "listingText"
  /\ response' = [ response EXCEPT ![p].listing.got = "body" ]
  /\ UNCHANGED <<redditAccessToken, tokenExpiryTime>>
  /\ ListingThrows(p, ListingStatusError(response[p].listing.status, errorBody, locals[p].subredditName))
  /\ UNCHANGED <<env, now, tokenResult, request, requests, started>>

\* The handler with the cache invalidated on every status that is not ok.
ListingTextClearsAlways(p, errorBody) ==
  /\ pc[p] = "listingText"
  /\ response' = [ response EXCEPT ![p].listing.got = "body" ]
  /\ ClearCache
  /\ ListingThrows(p, ListingStatusError(response[p].listing.status, errorBody, locals[p].subredditName))
  /\ UNCHANGED <<env, now, tokenResult, request, requests, started>>

\* The body of a listing response that is not ok has been read.
ListingText(p, errorBody) ==
  /\ pc[p] = "listingText"
  /\ response' = [ response EXCEPT ![p].listing.got = "body" ]
  /\ IF response[p].listing.status = 401
       THEN ClearCache
       ELSE UNCHANGED <<redditAccessToken, tokenExpiryTime>>
  /\ ListingThrows(p, ListingStatusError(response[p].listing.status, errorBody, locals[p].subredditName))
  /\ UNCHANGED <<env, now, tokenResult, request, requests, started>>

\* The reading of the body of a listing response that is not ok failed.
ListingTextRejects(p) ==
  /\ pc[p] = "listingText"
  /\ response' = [ response EXCEPT ![p].listing.got = "failed" ]
  /\ ListingThrows(p, MsgFetchFailed)
  /\ UNCHANGED <<env, now, redditAccessToken, tokenExpiryTime, tokenResult, request, requests, started>>

\* listing.kind !== 'Listing' || !listing.data || !listing.data.children
IsInvalidStructure(listing) ==
  \/ listing.kind # "Listing"
  \/ listing.data = None
  \/ listing.data[1].children = None

\* The handler with a body of invalid structure dealt with like a 401: the
\* cache is cleared.
ListingJsonClearingCache(p, listing) ==
  /\ pc[p] = "listingJson"
  /\ response' = [ response EXCEPT ![p].listing.got = "body" ]
  /\ IF IsInvalidStructure(listing)
       THEN /\ ListingThrows(p, MsgInvalidStructure)
            /\ ClearCache
       ELSE /\ outcome' = [ outcome EXCEPT ![p] = Returned(ScrapeChildren(listing.data[1].children[1]).mediaPosts) ]
            /\ locals' = [ locals EXCEPT ![p] = NoLocals ]
            /\ pc' = [ pc EXCEPT ![p] = "done" ]
            /\ UNCHANGED <<redditAccessToken, tokenExpiryTime>>
  /\ UNCHANGED <<env, now, tokenResult, request, requests, started>>

\* The body of an ok listing response has been parsed: the structure check
\* and the forEach over the entries.
ListingJson(p, listing) ==
  /\ pc[p] = "listingJson"
  /\ response' = [ response EXCEPT ![p].listing.got = "body" ]
  /\ IF IsInvalidStructure(listing)
       THEN ListingThrows(p, MsgInvalidStructure)
       ELSE /\ outcome' = [ outcome EXCEPT ![p] = Returned(ScrapeChildren(listing.data[1].children[1]).mediaPosts) ]
            /\ locals' = [ locals EXCEPT ![p] = NoLocals ]
            /\ pc' = [ pc EXCEPT ![p] = "done" ]
  /\ UNCHANGED <<env, now, redditAccessToken, tokenExpiryTime, tokenResult, request, requests, started>>

\* The body of an ok listing response is not JSON, or its reading failed.
ListingJsonRejects(p) ==
  /\ pc[p] = "listingJson"
  /\ response' = [ response EXCEPT ![p].listing.got = "failed" ]
  /\ ListingThrows(p, MsgNotJson)
  /\ UNCHANGED <<env, now, redditAccessToken, tokenExpiryTime, tokenResult, request, requests, started>>

\* Time passes.
Tick ==
  /\ now < MaxTicks * MsPerSecond
  /\ now' = now + MsPerSecond
  /\ UNCHANGED <<env, redditAccessToken, tokenExpiryTime, pc, locals, tokenResult, response, request, requests, outcome, started>>

Next ==
  \/ \E p \in Procs, u \in SubredditUrls, l \in Limits : Start(p, u, l) /\ UNCHANGED <<listingVars, classifierVars, sanitizerVars, actionVars>>
  \/ \E p \in Procs, s \in GrantStatuses : GrantFetchResolves(p, s) /\ UNCHANGED <<listingVars, classifierVars, sanitizerVars, actionVars>>
  \/ \E p \in Procs : GrantFetchRejects(p) /\ UNCHANGED <<listingVars, classifierVars, sanitizerVars, actionVars>>
  \/ \E p \in Procs, b \in BOOLEAN : GrantText(p, b) /\ UNCHANGED <<listingVars, classifierVars, sanitizerVars, actionVars>>
  \/ \E p \in Procs, t \in TokenResponses : GrantJson(p, t) /\ UNCHANGED <<listingVars, classifierVars, sanitizerVars, actionVars>>
  \/ \E p \in Procs : GrantJsonRejects(p) /\ UNCHANGED <<listingVars, classifierVars, sanitizerVars, actionVars>>
  \/ \E p \in Procs : TokenSettled(p) /\ UNCHANGED <<listingVars, classifierVars, sanitizerVars, actionVars>>
  \/ \E p \in Procs, s \in ListingStatuses : ListingFetchResolves(p, s) /\ UNCHANGED <<listingVars, classifierVars, sanitizerVars, actionVars>>
  \/ \E p \in Procs : ListingFetchRejects(p) /\ UNCHANGED <<listingVars, classifierVars, sanitizerVars, actionVars>>
  \/ \E p \in Procs, b \in ErrorBodies : ListingText(p, b) /\ UNCHANGED <<listingVars, classifierVars, sanitizerVars, actionVars>>
  \/ \E p \in Procs : ListingTextRejects(p) /\ UNCHANGED <<listingVars, classifierVars, sanitizerVars, actionVars>>
  \/ \E p \in Procs, l \in ListingBodies : ListingJson(p, l) /\ UNCHANGED <<listingVars, classifierVars, sanitizerVars, actionVars>>
  \/ \E p \in Procs : ListingJsonRejects(p) /\ UNCHANGED <<listingVars, classifierVars, sanitizerVars, actionVars>>
  \/ Tick /\ UNCHANGED <<listingVars, classifierVars, sanitizerVars, actionVars>>

Spec == Init /\ [][Next]_vars

(***************************************************************************)
(* The forEach loop on its own, over every short listing                   *)
(***************************************************************************)
\* title, permalink, url, post_hint, is_video, reddit_video.fallback_url,
\* domain
EntryShapes ==
  { <<"cat", "/r/pics/1", UrlImgA, "image", FALSE, None, "i.redd.it">>,
    <<"dog", "/r/pics/2", UrlImgA, "none", FALSE, None, "i.redd.it">>,
    <<"", "/r/pics/3", UrlImgB, "none", FALSE, None, "i.redd.it">>,
    <<"both", "/r/pics/4", UrlHinted, "image", TRUE, Some(UrlVideo), "i.redd.it">>,
    <<"clip", "/r/pics/5", UrlPage, "hosted:video", TRUE, Some(UrlVideo), "i.redd.it">>,
    <<"text", "/r/pics/6", UrlPage, "self", FALSE, None, "i.redd.it">>,
    <<"blank", "/r/pics/7", UrlEmpty, "image", FALSE, None, "i.redd.it">>,
    <<"gif", "/r/pics/8", UrlRedgifsWatch, "rich:video", FALSE, None, "redgifs.com">> }

ListingChildren ==
  { Child(kind, Some(PostData(e[1], e[2], e[3], e[4], e[5], isGallery, stickied, e[7], e[6], "none", None, None))) :
      kind \in {"t3", "t1"}, e \in EntryShapes, isGallery \in BOOLEAN, stickied \in BOOLEAN }
    \cup { Child("t3", None), Child("t1", None) }

FetcherIdle == FetcherInit /\ ~CredentialsMissing

InitListing ==
  /\ FetcherIdle
  /\ ClassifierInit
  /\ SanitizerInit
  /\ ActionInit
  /\ children \in SeqsUpTo(ListingChildren, MaxChildren)
  /\ index = 0
  /\ acc = EmptyAcc

\* One call of the forEach callback.
ForEachStep ==
  /\ index < Len(children)
  /\ index' = index + 1
  /\ acc' = ProcessChild(acc, children[index + 1], index + 1)
  /\ UNCHANGED <<children, fetcherVars, classifierVars, sanitizerVars, actionVars>>

NextListing == ForEachStep

SpecListing == InitListing /\ [][NextListing]_vars

(***************************************************************************)
(* The classifier on its own, over every combination of the fields it      *)
(* reads                                                                   *)
(***************************************************************************)
PostDomain ==
  { PostData("post", "/r/pics/9", url, hint, isVideo, FALSE, FALSE, domain, videoFallback, provider, embedUrl, previewFallback) :
      url \in {UrlEmpty, UrlImgA, UrlImgB, UrlHinted, UrlGalleryJpg, UrlPage, UrlGifv, UrlRedgifsWatch},
      hint \in {"none", "image", "hosted:video", "link", "rich:video", "self"},
      isVideo \in BOOLEAN,
      domain \in {"i.redd.it", "redgifs.com", "gfycat.com", "imgur.com"},
      videoFallback \in {None, Some(UrlEmpty), Some(UrlVideo)},
      provider \in {"none", "Redgifs"},
      embedUrl \in {None, Some(UrlRedgifsEmbed), Some(UrlOtherEmbed)},
      previewFallback \in {None, Some(UrlRedgifsPreview), Some(UrlPreview)} }

InitClassify ==
  /\ FetcherIdle
  /\ ListingInit
  /\ SanitizerInit
  /\ ActionInit
  /\ entry \in PostDomain
  /\ classified = FALSE
  /\ foundMedia = None

\* The if / else-if chain runs on the entry.
Classify ==
  /\ ~classified
  /\ classified' = TRUE
  /\ foundMedia' = ClassifyPost(entry)
  /\ UNCHANGED <<entry, fetcherVars, listingVars, sanitizerVars, actionVars>>

NextClassify == Classify

SpecClassify == InitClassify /\ [][NextClassify]_vars

(***************************************************************************)
(* sanitizeAndFilterImages on its own, over every short list of posts and  *)
(* several sets of allowed hostnames                                       *)
(***************************************************************************)
InitSanitize ==
  /\ FetcherIdle
  /\ ListingInit
  /\ ClassifierInit
  /\ ActionInit
  /\ rawMedia \in SeqsUpTo(SanitizerPosts, MaxPosts)
  /\ allowedHostnames \in AllowedHostnameSets
  /\ sanitizedImages = None
  /\ sanitizedAgain = None

\* sanitizeAndFilterImages runs on the posts.
Sanitize ==
  /\ sanitizedImages = None
  /\ sanitizedImages' = Some(SanitizeAndFilterImages(rawMedia, allowedHostnames))
  /\ UNCHANGED <<rawMedia, allowedHostnames, sanitizedAgain, fetcherVars, listingVars, classifierVars, actionVars>>

\* It runs once more, on what it returned.
SanitizeAgain ==
  /\ sanitizedImages # None
  /\ sanitizedAgain = None
  /\ sanitizedAgain' = Some(SanitizeAndFilterImages(sanitizedImages[1], allowedHostnames))
  /\ UNCHANGED <<rawMedia, allowedHostnames, sanitizedImages, fetcherVars, listingVars, classifierVars, actionVars>>

NextSanitize ==
  \/ Sanitize
  \/ SanitizeAgain

SpecSanitize == InitSanitize /\ [][NextSanitize]_vars

(***************************************************************************)
(* scrapeSubredditAction, over several forms and previous states, with     *)
(* scrapeTrendyImages settling in each of the ways it can                  *)
(***************************************************************************)
FormUrls ==
  { None,
    Some(<<"https:", "//", "www.", "reddit.com", "/", "r", "/", "pics", "/">>),
    Some(<<"https:", "//", "www.", "reddit.com", "/", "r", "/">>),
    Some(<<"www.", "reddit.com", "/", "r", "/", "pics">>),
    Some(<<"https:", "//", "example.com", "/", "page">>) }

FormLimits == { None, Some("0"), Some("2.5"), Some("25"), Some("100"), Some("101"), Some("abc") }

FormInputs == [ subredditUrl : FormUrls, limit : FormLimits ]

\* MediaPost as scrapeTrendyImages returns it: an image.
ScrapedPosts ==
  [ mediaUrl : {UrlImgA, UrlHinted, UrlPage, UrlFtp},
    mediaType : {"image"},
    title : {"cat"},
    redditUrl : {<<"https://www.reddit.com", "/r/pics/1">>} ]

\* The lists it returns: no two posts with the same mediaUrl.
ScrapedLists ==
  { l \in SeqsUpTo(ScrapedPosts, MaxPosts) :
      \A i, j \in DOMAIN l : l[i].mediaUrl = l[j].mediaUrl => i = j }

\* The messages of the errors scrapeTrendyImages throws for a subreddit:
\* the errors of getRedditAccessToken, thrown on as they are, and what its
\* catch makes of the errors of the listing request.
ScrapeErrors(name) ==
  { GrantCatch(message) : message \in {MsgGrantUnauthorized(401), MsgGrantStatus(500), MsgInvalidToken, MsgFetchFailed, MsgNotJson} }
    \cup { ListingCatch(message, name) :
             message \in { ListingStatusError(status, errorBody, name) : status \in ListingStatuses \ {200}, errorBody \in ErrorBodies }
                           \cup { MsgInvalidStructure, MsgFetchFailed, MsgNotJson } }

\* The ways scrapeTrendyImages(validatedUrl, validatedLimit) settles when
\* the credentials are configured.
ScrapeResults(validatedUrl) ==
  IF ExtractSubredditName(validatedUrl) = None
    THEN { Thrown(MsgInvalidUrl) }
    ELSE { Thrown(message) : message \in ScrapeErrors(ExtractSubredditName(validatedUrl)[1]) }
           \cup { Returned(media) : media \in ScrapedLists }

PrevStates ==
  { InitialState,
    ResultState(<<CHOOSE post \in ScrapedPosts : post.mediaUrl = UrlImgA>>, MsgSuccess(1), 0),
    ResultState(<<>>, MsgFoundZero(<<"https:", "//", "www.", "reddit.com", "/", "r", "/", "pics", "/">>), 0),
    ErrorState(InitialState, MsgNotConfigured, 0) }

InitAction ==
  /\ FetcherInit
  /\ ListingInit
  /\ ClassifierInit
  /\ rawMedia = <<>>
  /\ allowedHostnames \in { GetAllowedHostnames(patterns) : patterns \in RemotePatterns }
  /\ sanitizedImages = None
  /\ sanitizedAgain = None
  /\ formData \in FormInputs
  /\ prevState \in PrevStates
  /\ actionPc = "idle"
  /\ scraped = Pending
  /\ newState = None

\* The action returns a state.
ActionReturns(state) ==
  /\ newState' = Some(state)
  /\ actionPc' = "returned"

\* Lines 111-159: the two validations and the test of the credentials,
\* then the call of scrapeTrendyImages.
ActionCalled ==
  /\ actionPc = "idle"
  /\ LET urlParseResult == UrlSchema(formData.subredditUrl)
         limitParseResult == LimitSchema(formData.limit)
     IN IF ~urlParseResult.success
          THEN ActionReturns(ErrorState(prevState, urlParseResult.message, now))
        ELSE IF ~limitParseResult.success
          THEN ActionReturns(ErrorState(prevState, limitParseResult.message, now))
        ELSE IF CredentialsMissing
          THEN ActionReturns(ErrorState(prevState, MsgNotConfigured, now))
        ELSE actionPc' = "scraping" /\ UNCHANGED newState
  /\ UNCHANGED <<formData, prevState, scraped, fetcherVars, listingVars, classifierVars, sanitizerVars>>

\* Lines 159-205: scrapeTrendyImages returned a list.
ActionScrapeReturns(media) ==
  /\ actionPc = "scraping"
  /\ Returned(media) \in ScrapeResults(formData.subredditUrl[1])
  /\ scraped' = Returned(media)
  /\ ActionReturns(AfterScrape(prevState, formData.subredditUrl[1], Some(media), allowedHostnames, now))
  /\ UNCHANGED <<formData, prevState, fetcherVars, listingVars, classifierVars, sanitizerVars>>

\* Lines 207-235: scrapeTrendyImages threw an Error.
ActionScrapeThrows(message) ==
  /\ actionPc = "scraping"
  /\ Thrown(message) \in ScrapeResults(formData.subredditUrl[1])
  /\ scraped' = Thrown(message)
  /\ ActionReturns(ErrorState(prevState, ActionCatch(message), now))
  /\ UNCHANGED <<formData, prevState, fetcherVars, listingVars, classifierVars, sanitizerVars>>

NextAction ==
  \/ ActionCalled
  \/ \E media \in ScrapedLists : ActionScrapeReturns(media)
  \/ \E message \in ScrapeErrors("pics") \cup {MsgInvalidUrl} : ActionScrapeThrows(message)

SpecAction == InitAction /\ [][NextAction]_vars

\* Every error an invocation of scrapeTrendyImages ends with under Spec is
\* one of ScrapeResults, and every list it returns holds images only, no
\* two with the same mediaUrl.
OutcomesWithinScrapeResults ==
  \A p \in Procs :
    /\ outcome[p].state = "thrown" =>
         outcome[p].error \in ScrapeErrors("pics") \cup {MsgInvalidUrl, MsgCredentialsMissing}
    /\ outcome[p].state = "returned" =>
         \A i, j \in DOMAIN outcome[p].media :
           /\ outcome[p].media[i].mediaType = "image"
           /\ outcome[p].media[i].mediaUrl = outcome[p].media[j].mediaUrl => i = j

(***************************************************************************)
(* Properties of the listing loop and the classifier                       *)
(***************************************************************************)
\* The direct-image rule as the specification words it: an image content
\* hint or an image file extension, and no "gallery" in the target URL.
DirectImageRule(d) ==
  /\ d.post_hint = "image" \/ (d.url # UrlEmpty /\ Lower(d.url[Len(d.url)]) \in {".jpg", ".jpeg", ".png", ".gif"})
  /\ ~Includes(d.url, <<"gallery">>)

\* The hosted-video rule: flagged as video, with a fallback video URL.
HostedVideoRule(d) ==
  d.is_video /\ d.video_fallback_url # None /\ d.video_fallback_url[1] # UrlEmpty

\* An entry that is out of scope: not a post, stickied, or a gallery.
OutOfScope(child) ==
  \/ child.kind # "t3"
  \/ child.data # None /\ (child.data[1].stickied \/ child.data[1].is_gallery)

\* C1: whatever the listing (entries repeating a target URL included), no
\* two posts of the list that scrapeTrendyImages builds have the same
\* mediaUrl.
C1_NoDuplicateMediaUrl ==
  \A i, j \in 1..Len(acc.mediaPosts) :
    i # j => acc.mediaPosts[i].mediaUrl # acc.mediaPosts[j].mediaUrl

\* C1 witness: the loop is over, two in-scope entries named the same image
\* URL, and one post with that URL was kept.
C1_Witness ==
  /\ index = Len(children)
  /\ Len(children) = 2
  /\ ~OutOfScope(children[1]) /\ ~OutOfScope(children[2])
  /\ children[1].data # None /\ children[2].data # None
  /\ children[1].data[1].url = UrlImgA /\ children[2].data[1].url = UrlImgA
  /\ Len(acc.mediaPosts) = 1
  /\ acc.skippedCount = 1

\* C9 as stated: an entry under both the direct-image rule and the
\* hosted-video rule is classified as (target URL, image).
C9_Original ==
  (classified /\ DirectImageRule(entry) /\ HostedVideoRule(entry))
    => foundMedia = Some([ mediaUrl |-> entry.url, mediaType |-> "image" ])

\* C9, amended: an entry with a non-empty target URL that is under both the
\* direct-image rule and the hosted-video rule is classified as (target URL,
\* image), never as video.
C9_ImageBeforeVideo ==
  (classified /\ entry.url # UrlEmpty /\ DirectImageRule(entry) /\ HostedVideoRule(entry))
    => foundMedia = Some([ mediaUrl |-> entry.url, mediaType |-> "image" ])

\* C9 witness: an entry with an image hint, no image extension, and a hosted
\* video has been classified as an image.
C9_Witness ==
  /\ classified
  /\ entry.url = UrlHinted
  /\ entry.post_hint = "image"
  /\ entry.is_video
  /\ entry.video_fallback_url = Some(UrlVideo)
  /\ foundMedia # None
  /\ foundMedia[1].mediaType = "image"

\* C10: no post of the list comes from an entry that is not of kind t3, is
\* stickied or is a gallery, whatever its URL and content hint.
C10_OutOfScopeNeverKept ==
  /\ Len(acc.origins) = Len(acc.mediaPosts)
  /\ \A k \in 1..Len(acc.origins) :
       /\ acc.origins[k] \in 1..index
       /\ ~OutOfScope(children[acc.origins[k]])

\* C10 witness: the loop is over a stickied entry with an image hint and an
\* image URL, and over an entry that was kept.
C10_Witness ==
  /\ index = Len(children)
  /\ Len(children) = 2
  /\ children[1].kind = "t3"
  /\ children[1].data # None
  /\ children[1].data[1].stickied
  /\ children[1].data[1].post_hint = "image"
  /\ children[1].data[1].url = UrlImgA
  /\ acc.origins = <<2>>

(***************************************************************************)
(* Properties of the token cache and of the error handling                 *)
(***************************************************************************)
\* The kind of an error, from the throw statement its message comes from.
ErrorKind(message) ==
  CASE message = <<>> -> "none"
    [] Head(message) = "Reddit API " -> "CredentialsMissing"
    [] Head(message) = "Failed to authenticate" -> "AuthRejected"
    [] Head(message) = "Reddit API authentication failed " -> "AuthRejected"
    [] Head(message) = "Could not connect" -> "NetworkError"
    [] Head(message) = "Invalid subreddit URL format" -> "InvalidSource"
    [] Head(message) = "Subreddit 'r/" -> "SourceNotFound"
    [] Head(message) = "Access denied " -> "AccessDenied"
    [] Head(message) = "Rate limited by Reddit " -> "RateLimited"
    [] OTHER -> "UpstreamError"

\* In this step, process p calls scrapeTrendyImages and the call reaches
\* getRedditAccessToken.
CallsTokenManager(p) ==
  pc[p] \in {"idle", "done"} /\ pc'[p] \in {"tokenSettled", "grantFetch"}

\* In this step, process p has read the whole of a listing response of the
\* given status.
ListingAnswered(p, status) ==
  /\ pc[p] \in {"listingText", "listingJson"}
  /\ response[p].listing.status = status
  /\ response'[p].listing.got = "body"

\* The invocation of p is over, and the listing endpoint had answered it
\* with the given status.
DoneAfterListing(p, status) ==
  /\ pc[p] = "done"
  /\ response[p].listing = [ got |-> "body", status |-> status ]

CacheUnchanged == UNCHANGED <<redditAccessToken, tokenExpiryTime>>

CacheEmpty == redditAccessToken = None /\ tokenExpiryTime = None

\* A call made with an empty cache and configured credentials sends a grant
\* request; it returns no token from the cache.
EmptyCacheCallRefreshes(p) ==
  (CallsTokenManager(p) /\ redditAccessToken = None /\ env.REDDIT_CLIENT_ID # "" /\ env.REDDIT_CLIENT_SECRET # "")
    => (pc'[p] = "grantFetch" /\ requests'[p].grant = 1 /\ tokenResult'[p].state = "pending")

\* C2: with a token cached, a call made while now < expiresAt returns that
\* token and sends no grant request; a call made at or after expiresAt sends
\* one grant request, and no invocation ever sends a second one.
C2_CachedTokenReuse ==
  /\ [](\A p \in Procs : requests[p].grant <= 1)
  /\ [][\A p \in Procs :
          (CallsTokenManager(p) /\ redditAccessToken # None /\ tokenExpiryTime # None)
            => IF now < tokenExpiryTime[1]
                 THEN /\ pc'[p] = "tokenSettled"
                      /\ tokenResult'[p] = Resolved(redditAccessToken[1])
                      /\ requests'[p].grant = 0
                      /\ CacheUnchanged
                 ELSE /\ pc'[p] = "grantFetch"
                      /\ requests'[p].grant = 1]_vars

\* C2 witness: a call has returned the cached token without a grant request
\* of its own, one second before the token's expiry time.
C2_Witness ==
  \E p \in Procs :
    /\ pc[p] = "tokenSettled"
    /\ requests[p].grant = 0
    /\ redditAccessToken # None
    /\ tokenResult[p] = Resolved(redditAccessToken[1])
    /\ tokenExpiryTime = Some(now + MsPerSecond)

\* C3: when the grant endpoint answers 401, getRedditAccessToken fails with
\* AuthRejected and leaves the token and the expiry cleared; a call that
\* finds the cache empty sends a new grant request.
C3_Grant401ClearsCache ==
  [][\A p \in Procs :
       /\ (pc[p] = "grantText" /\ response[p].grant.status = 401 /\ response'[p].grant.got = "body")
            => /\ tokenResult'[p].state = "thrown"
               /\ ErrorKind(tokenResult'[p].error) = "AuthRejected"
               /\ redditAccessToken' = None
               /\ tokenExpiryTime' = None
       /\ EmptyCacheCallRefreshes(p)]_vars

\* C3 witness: a refresh was answered 401 while another invocation, which
\* had stored a token, was still in flight; the call has failed and the
\* cache is empty.
C3_Witness ==
  \E p, q \in Procs :
    /\ pc[p] = "tokenSettled"
    /\ response[p].grant = [ got |-> "body", status |-> 401 ]
    /\ tokenResult[p].state = "thrown"
    /\ pc[q] = "listingFetch"
    /\ response[q].grant = [ got |-> "body", status |-> 200 ]
    /\ CacheEmpty

\* C4: when the listing endpoint answers 401, the step that raises the
\* AuthRejected error to the caller also clears the token and the expiry; a
\* call that finds the cache empty sends a new grant request.
C4_Listing401ClearsCache ==
  [][\A p \in Procs :
       /\ ListingAnswered(p, 401)
            => /\ pc'[p] = "done"
               /\ outcome'[p] = Thrown(MsgListing401)
               /\ ErrorKind(outcome'[p].error) = "AuthRejected"
               /\ redditAccessToken' = None
               /\ tokenExpiryTime' = None
       /\ (pc[p] = "done" /\ response[p].listing.status = 401)
            => EmptyCacheCallRefreshes(p)]_vars

\* C4 witness: an invocation that had been granted a token itself was
\* answered 401 by the listing endpoint; it is over and the cache is empty.
C4_Witness ==
  \E p \in Procs :
    /\ DoneAfterListing(p, 401)
    /\ response[p].grant = [ got |-> "body", status |-> 200 ]
    /\ outcome[p].state = "thrown"
    /\ CacheEmpty

\* C5: when the listing endpoint answers 429, scrapeTrendyImages fails with
\* the RateLimited error and returns no media.
C5_RateLimited ==
  \A p \in Procs :
    DoneAfterListing(p, 429)
      => /\ outcome[p].state = "thrown"
         /\ outcome[p].media = <<>>
         /\ ErrorKind(outcome[p].error) = "RateLimited"

\* C6: when the listing endpoint answers 403, the error raised to the caller
\* is the AccessDenied error.
C6_AccessDenied ==
  \A p \in Procs :
    DoneAfterListing(p, 403)
      => /\ outcome[p].state = "thrown"
         /\ ErrorKind(outcome[p].error) = "AccessDenied"

C8_UpstreamErrorWithStatus ==
  \A p \in Procs :
    (pc[p] = "done" /\ response[p].listing.got = "body" /\ response[p].listing.status = 500)
      => /\ outcome[p].state = "thrown"
         /\ ErrorKind(outcome[p].error) = "UpstreamError"
         /\ Includes(outcome[p].error, <<StatusText(response[p].listing.status)>>)

(***************************************************************************)
(* Properties of the sanitizer                                             *)
(***************************************************************************)
\* A post qualifies when its media type is image and its media URL parses
\* as a URL with scheme http or https and a hostname of the allowed set.
Qualifies(post) ==
  /\ post.mediaType = "image"
  /\ ParseUrl(post.mediaUrl) # None
  /\ ParseUrl(post.mediaUrl)[1].protocol \in {"http:", "https:"}
  /\ ParseUrl(post.mediaUrl)[1].hostname \in { allowedHostnames[i] : i \in DOMAIN allowedHostnames }

C12_SanitizerIdempotent ==
  sanitizedAgain # None => sanitizedAgain[1] = sanitizedImages[1]

\* Both runs happened on a list of which the first run dropped the first
\* post and kept the second.
C12_Witness ==
  /\ sanitizedAgain # None
  /\ Len(rawMedia) = 2
  /\ rawMedia[1] # rawMedia[2]
  /\ sanitizedImages[1] = <<rawMedia[2]>>

ReportsZeroItems(message) ==
  \/ Head(message) = "Found 0 suitable images in r/"
  \/ /\ Head(message) = "Reddit API returned "
     /\ \E i \in DOMAIN message :
          message[i] = " posts, but none contained direct image links matching the criteria (e.g., not videos, gifs, galleries, or filtered by allowed domains: "

\* C14: when scrapeTrendyImages throws, scrapeSubredditAction returns a
\* state with an error and media null; when it returns a list of which no
\* post qualifies, the action returns a state with media the empty list,
\* error null and a message telling that no item was found; so the two
\* outcomes never give the same state.
C14_ErrorAndEmptyResultDiffer ==
  actionPc = "returned" =>
    /\ scraped.state = "thrown" =>
         /\ newState[1].error # None
         /\ newState[1].error[1] # <<>>
         /\ newState[1].media = None
    /\ (scraped.state = "returned" /\ \A i \in DOMAIN scraped.media : ~Qualifies(scraped.media[i])) =>
         /\ newState[1].media = Some(<<>>)
         /\ newState[1].error = None
         /\ newState[1].message # None
         /\ ReportsZeroItems(newState[1].message[1])

\* scrapeTrendyImages returned two posts, the sanitizer dropped both and
\* the action returned the empty list in place of the media of the
\* previous state.
C14_Witness ==
  /\ actionPc = "returned"
  /\ scraped.state = "returned"
  /\ Len(scraped.media) = 2
  /\ prevState.media # None
  /\ prevState.media # Some(<<>>)
  /\ newState[1].media = Some(<<>>)

(***************************************************************************)
(* Properties of the requests, the early failures and the token cache      *)
(***************************************************************************)
\* The invocation of p received a failed response: a request that failed in
\* transport, a body that could not be read, or a status that is not ok.
FailedResponse(p) ==
  \E e \in {"grant", "listing"} :
    \/ response[p][e].got = "failed"
    \/ response[p][e].got \in {"headers", "body"} /\ ~(response[p][e].status \in 200..299)

\* C15: one invocation of scrapeTrendyImages sends at most one request to
\* the grant endpoint and at most one to the listing endpoint, whatever the
\* responses; once it received a failed response it sends no request.
C15_NoAutomaticRetry ==
  /\ [](\A p \in Procs : requests[p].grant <= 1 /\ requests[p].listing <= 1)
  /\ [][\A p \in Procs :
          (FailedResponse(p) /\ pc[p] # "done") => requests'[p] = requests[p]]_vars

\* An invocation ended after the listing endpoint answered 429 to its one
\* listing request, and another after its grant request failed in
\* transport.
C15_Witness ==
  \E p, q \in Procs :
    /\ pc[p] = "done"
    /\ response[p].listing = [ got |-> "body", status |-> 429 ]
    /\ requests[p].listing = 1
    /\ pc[q] = "done"
    /\ response[q].grant.got = "failed"
    /\ requests[q] = [ grant |-> 1, listing |-> 0 ]

\* The URL has a path segment after /r/.
HasSegmentAfterR(url) ==
  \E i \in 1..(Len(url) - 3) :
    /\ url[i] = "/"
    /\ url[i + 1] \in {"r", "R"}
    /\ url[i + 2] = "/"
    /\ url[i + 3] # "/"

\* The URLs of the inputs with no path segment after /r/.
UrlsWithoutSegmentAfterR == { u \in SubredditUrls : ~HasSegmentAfterR(u) }

NotConfigured == env.REDDIT_CLIENT_ID = "" \/ env.REDDIT_CLIENT_SECRET = ""

\* The cache holds a token that has not reached its expiry.
HoldsUnexpiredToken ==
  /\ redditAccessToken # None
  /\ tokenExpiryTime # None
  /\ now < tokenExpiryTime[1]

\* C17: with the client id or the client secret not configured and no
\* unexpired token cached, getRedditAccessToken fails with
\* CredentialsMissing and sends no grant request, and scrapeTrendyImages
\* ends with that error and sends no listing request.
C17_CredentialsMissingSendsNothing ==
  /\ [][\A p \in Procs :
          (CallsTokenManager(p) /\ NotConfigured /\ ~HoldsUnexpiredToken) =>
            /\ tokenResult'[p].state = "thrown"
            /\ ErrorKind(tokenResult'[p].error) = "CredentialsMissing"
            /\ requests'[p].grant = 0]_vars
  /\ [][\A p \in Procs :
          (/\ pc[p] = "tokenSettled"
           /\ tokenResult[p].state = "thrown"
           /\ ErrorKind(tokenResult[p].error) = "CredentialsMissing"
           /\ pc'[p] # pc[p]) =>
            /\ pc'[p] = "done"
            /\ outcome'[p].state = "thrown"
            /\ outcome'[p].error = tokenResult[p].error
            /\ requests'[p] = [ grant |-> 0, listing |-> 0 ]]_vars

\* With the client secret not configured, an invocation ended with
\* CredentialsMissing and sent nothing.
C17_Witness ==
  \E p \in Procs :
    /\ env.REDDIT_CLIENT_SECRET = ""
    /\ pc[p] = "done"
    /\ ErrorKind(outcome[p].error) = "CredentialsMissing"
    /\ requests[p] = [ grant |-> 0, listing |-> 0 ]

\* C18: a grant response with a bearer token and expires_in seconds, parsed
\* at time now, sets the cached expiry to now + expires_in - 300 seconds
\* (the clock counts milliseconds); for expires_in below 300 that is before
\* now, and a call that finds the expiry behind it returns no cached token.
C18_ExpiryIsGrantTimePlusLifetimeLessMargin ==
  /\ [][\A p \in Procs, t \in TokenResponses :
          (GrantJson(p, t) /\ t.token_type = "bearer" /\ t.access_token # "") =>
            /\ tokenExpiryTime' = Some(now + t.expires_in * 1000 - 300 * 1000)
            /\ t.expires_in < 300 => tokenExpiryTime'[1] < now]_vars
  /\ [][\A p \in Procs :
          (CallsTokenManager(p) /\ tokenExpiryTime # None /\ tokenExpiryTime[1] < now) =>
            tokenResult'[p].state # "returned"]_vars

\* A token granted for 299 seconds is in the cache with its expiry one
\* second back, and an invocation started after it is refreshing.
C18_Witness ==
  \E p, q \in Procs :
    /\ response[p].grant = [ got |-> "body", status |-> 200 ]
    /\ redditAccessToken # None
    /\ tokenExpiryTime = Some(now - 1000)
    /\ pc[p] = "done"
    /\ pc[q] = "grantFetch"

\* C19: under every interleaving, token and expiry are either both unset or
\* both set, and a step that changes either of them clears both or stores
\* the access_token of one grant response with the expiry computed from the
\* expires_in of that same response.
C19_TokenAndExpiryArePair ==
  /\ [](redditAccessToken = None <=> tokenExpiryTime = None)
  /\ [][(redditAccessToken' # redditAccessToken \/ tokenExpiryTime' # tokenExpiryTime) =>
          \/ redditAccessToken' = None /\ tokenExpiryTime' = None
          \/ \E p \in Procs, t \in TokenResponses :
               /\ pc[p] = "grantJson"
               /\ pc'[p] = "tokenSettled"
               /\ tokenResult'[p].state = "returned"
               /\ tokenResult'[p].token = t.access_token
               /\ redditAccessToken' = Some(t.access_token)
               /\ tokenExpiryTime' = Some(now + (t.expires_in - 300) * 1000)]_vars

\* Two invocations refreshed at the same time: one was granted tokA, and
\* the cache holds tokB, granted to the other.
C19_Witness ==
  \E p, q \in Procs :
    /\ pc[p] = "tokenSettled"
    /\ tokenResult[p].token = "tokA"
    /\ response[q].grant = [ got |-> "body", status |-> 200 ]
    /\ redditAccessToken = Some("tokB")
    /\ tokenExpiryTime # None

\* In this step a grant request or a listing request of p, answered 401,
\* is dealt with.
Deals401(p) ==
  /\ pc'[p] # pc[p]
  /\ \/ pc[p] = "grantText" /\ response[p].grant.status = 401
     \/ pc[p] = "listingText" /\ response[p].listing.status = 401

\* C20: under every interleaving, a cached token that has not reached its
\* expiry leaves the cache only when a grant or listing request was
\* answered 401 or when a newly granted token takes its place; a second
\* refresh running at the same time never empties the cache of the token
\* the first one stored.
C20_UnexpiredTokenLeavesOnlyOn401OrReplacement ==
  [][(HoldsUnexpiredToken /\ redditAccessToken' # redditAccessToken) =>
       \/ redditAccessToken' # None /\ tokenExpiryTime' # None
       \/ \E p \in Procs : Deals401(p)]_vars

(***************************************************************************)
(* Properties of the later rules of the classifier                         *)
(***************************************************************************)
\* C21: an entry that is not under the direct-image rule (an entry with the
\* image hint or an image extension whose target URL contains "gallery"
\* included), is flagged as video and has a fallback video URL is classified
\* as (that fallback URL, video), not as no match.
C21_HostedVideoRule ==
  (classified /\ ~DirectImageRule(entry) /\ HostedVideoRule(entry))
    => foundMedia = Some([ mediaUrl |-> entry.video_fallback_url[1], mediaType |-> "video" ])


\* Rule 3: the entry's domain or the provider of its embed names Redgifs.
KnownHostRule(d) == d.domain = "redgifs.com" \/ d.provider_name = "Redgifs"

\* The most specific link of the entry: the embedded-media URL when present
\* and naming the host, else the preview fallback URL when present and
\* containing the host's identifier, else the target URL.
MostSpecificLink(d) ==
  CASE d.media_domain_url # None /\ Includes(d.media_domain_url[1], <<"redgifs", ".com">>) ->
         d.media_domain_url[1]
    [] /\ ~(d.media_domain_url # None /\ Includes(d.media_domain_url[1], <<"redgifs", ".com">>))
       /\ d.preview_fallback_url # None
       /\ Includes(d.preview_fallback_url[1], <<"redgifs">>) ->
         d.preview_fallback_url[1]
    [] OTHER -> d.url

\* C22: an entry under rule 3 and under neither the direct-image rule nor
\* the hosted-video rule is classified as redgifs, with its most specific
\* link as the URL.
C22_KnownHostRule ==
  (classified /\ ~DirectImageRule(entry) /\ ~HostedVideoRule(entry) /\ KnownHostRule(entry))
    => foundMedia = Some([ mediaUrl |-> MostSpecificLink(entry), mediaType |-> "redgifs" ])


(***************************************************************************)
(* Properties of the failures of the grant and of the order of the         *)
(* requests                                                                *)
(***************************************************************************)
\* C23: a grant response of success status whose token_type is not bearer
\* or whose access_token is missing or empty is not stored:
\* getRedditAccessToken fails and leaves the cache empty, and the invocation
\* ends without a listing request.
C23_InvalidTokenNeverStored ==
  /\ [][\A p \in Procs, t \in TokenResponses :
          (GrantJson(p, t) /\ (t.token_type # "bearer" \/ t.access_token = "")) =>
            /\ tokenResult'[p].state = "thrown"
            /\ redditAccessToken' = None
            /\ tokenExpiryTime' = None]_vars
  /\ [][\A p \in Procs :
          (/\ pc[p] = "tokenSettled"
           /\ response[p].grant = [ got |-> "body", status |-> 200 ]
           /\ tokenResult[p].state = "thrown"
           /\ pc'[p] # pc[p]) =>
            /\ pc'[p] = "done"
            /\ outcome'[p].state = "thrown"
            /\ request'[p] = None
            /\ requests'[p].listing = 0]_vars

\* An invocation ended in an error after its grant request was answered 200
\* with a body that was read: it sent no listing request and the cache is
\* empty.
C23_Witness ==
  \E p \in Procs :
    /\ pc[p] = "done"
    /\ response[p].grant = [ got |-> "body", status |-> 200 ]
    /\ outcome[p].state = "thrown"
    /\ requests[p] = [ grant |-> 1, listing |-> 0 ]
    /\ CacheEmpty

\* C24: when the grant request fails in transport, getRedditAccessToken
\* fails with NetworkError, which is neither AuthRejected nor
\* CredentialsMissing, and the invocation sends no second grant request.
C24_GrantTransportFailureIsNetworkError ==
  /\ [][\A p \in Procs :
          (pc[p] = "grantFetch" /\ response'[p].grant.got = "failed") =>
            /\ pc'[p] = "tokenSettled"
            /\ tokenResult'[p].state = "thrown"
            /\ ErrorKind(tokenResult'[p].error) = "NetworkError"
            /\ ErrorKind(tokenResult'[p].error) \notin {"AuthRejected", "CredentialsMissing"}
            /\ requests'[p] = requests[p]]_vars
  /\ [](\A p \in Procs :
          response[p].grant = [ got |-> "failed", status |-> 0 ] =>
            requests[p] = [ grant |-> 1, listing |-> 0 ])

\* The grant request of an invocation failed in transport and
\* getRedditAccessToken has thrown "Could not connect ...".
C24_Witness ==
  \E p \in Procs :
    /\ pc[p] = "tokenSettled"
    /\ response[p].grant = [ got |-> "failed", status |-> 0 ]
    /\ tokenResult[p].error = MsgCouldNotConnect

\* C25: an invocation sends its listing request only in the step that
\* follows the return of a token by getRedditAccessToken, and the request
\* carries that token; when getRedditAccessToken fails, the invocation ends
\* with that error and sends no listing request.
C25_ListingRequestAfterToken ==
  /\ [][\A p \in Procs :
          (requests'[p].listing > requests[p].listing \/ (request'[p] # None /\ request'[p] # request[p])) =>
            /\ pc[p] = "tokenSettled"
            /\ tokenResult[p].state = "returned"
            /\ tokenResult[p].token # ""
            /\ request'[p] # None
            /\ request'[p][1].bearer = tokenResult[p].token
            /\ requests'[p].listing = 1]_vars
  /\ [][\A p \in Procs :
          (pc[p] = "tokenSettled" /\ tokenResult[p].state = "thrown" /\ pc'[p] # pc[p]) =>
            /\ pc'[p] = "done"
            /\ outcome'[p].state = "thrown"
            /\ outcome'[p].error = tokenResult[p].error
            /\ requests'[p].listing = 0]_vars
  /\ [](\A p \in Procs :
          (pc[p] \in {"grantFetch", "grantText", "grantJson", "tokenSettled"}) =>
            (request[p] = None /\ requests[p].listing = 0))

\* An invocation sent its listing request with tokA, which
\* getRedditAccessToken had returned to it, while the cache held tokB,
\* stored by the other invocation.
C25_Witness ==
  \E p \in Procs :
    /\ pc[p] = "listingFetch"
    /\ request[p] # None
    /\ request[p][1].bearer = "tokA"
    /\ redditAccessToken = Some("tokB")

\* The bodies of the listing endpoint that fail the structure check.
MalformedListingBodies ==
  { b \in ListingBodies : b.kind # "Listing" \/ b.data = None \/ b.data[1].children = None }

\* C26: when the listing endpoint answers 200 with a body whose kind is not
\* Listing or that has no data or no data.children, scrapeTrendyImages fails
\* with UpstreamError, returns no media and leaves token and expiry as they
\* were.
C26_MalformedListingIsUpstreamError ==
  [][\A p \in Procs :
       (pc[p] = "listingJson" /\ pc'[p] # pc[p]) =>
         \A l \in MalformedListingBodies :
           ListingJson(p, l) =>
             /\ pc'[p] = "done"
             /\ outcome'[p].state = "thrown"
             /\ ErrorKind(outcome'[p].error) = "UpstreamError"
             /\ outcome'[p].media = <<>>
             /\ CacheUnchanged]_vars

\* An invocation ended with "... invalid data structure ..." and the cache
\* still holds the token.
C26_Witness ==
  \E p \in Procs :
    /\ pc[p] = "done"
    /\ response[p].listing = [ got |-> "body", status |-> 200 ]
    /\ outcome[p].error = MsgInvalidStructure
    /\ redditAccessToken # None
    /\ tokenExpiryTime # None


Qualifying(i) ==
  /\ i \in 1..index
  /\ ~OutOfScope(children[i])
  /\ children[i].data # None
  /\ DirectImageRule(children[i].data[1])
  /\ children[i].data[1].url # UrlEmpty

\* The number of the first qualifying entry with the given target URL.
Earliest(url) ==
  CHOOSE i \in 1..index :
    /\ Qualifying(i)
    /\ children[i].data[1].url = url
    /\ \A j \in 1..(i - 1) : ~(Qualifying(j) /\ children[j].data[1].url = url)

\* C28: each post of the list carries the title and the permalink of the
\* first qualifying entry with its mediaUrl, and the posts stand in the
\* order of those entries in the listing.
C28_ListingOrderFirstOccurrence ==
  \A k \in 1..Len(acc.mediaPosts) :
    /\ \E i \in 1..index : Qualifying(i) /\ children[i].data[1].url = acc.mediaPosts[k].mediaUrl
    /\ LET d == children[Earliest(acc.mediaPosts[k].mediaUrl)].data[1]
       IN /\ acc.mediaPosts[k].title = (IF d.title = "" THEN "Untitled Post" ELSE d.title)
          /\ acc.mediaPosts[k].redditUrl = <<"https://www.reddit.com", d.permalink>>
    /\ \A j \in 1..(k - 1) :
         Earliest(acc.mediaPosts[j].mediaUrl) < Earliest(acc.mediaPosts[k].mediaUrl)

\* The loop is over two entries with the same image URL and different
\* titles: the one post has the title and the permalink of the first.
C28_Witness ==
  /\ index = Len(children)
  /\ Len(children) = 2
  /\ Qualifying(1) /\ Qualifying(2)
  /\ children[1].data[1].url = children[2].data[1].url
  /\ children[1].data[1].title = "dog"
  /\ children[2].data[1].title = "cat"
  /\ acc.mediaPosts = << [ mediaUrl |-> UrlImgA, mediaType |-> "image", title |-> "dog",
                           redditUrl |-> <<"https://www.reddit.com", "/r/pics/2">> ] >>


(***************************************************************************)
(* Properties of the cache after a failed listing                          *)
(***************************************************************************)
\* In this step the invocation of p ends with an error on a listing
\* response whose status is not ok and not 401, or on an ok listing
\* response whose body is malformed.
ListingFailsNot401(p) ==
  /\ pc'[p] = "done"
  /\ outcome'[p].state = "thrown"
  /\ \/ pc[p] = "listingText" /\ response[p].listing.status # 401
     \/ pc[p] = "listingJson"

\* The last invocation of p ended in that way.
EndedOnListingFailure(p) ==
  /\ pc[p] = "done"
  /\ outcome[p].state = "thrown"
  /\ response[p].listing.got \in {"body", "failed"}
  /\ response[p].listing.status \in ListingStatuses \ {401}

\* The URLs of the inputs that name a subreddit.
WellFormedSubredditUrls == { v \in SubredditUrls : ExtractSubredditName(v) # None }

\* C29: a listing response with a status that is not ok and not 401, and a
\* malformed listing body, leave the cached token and its expiry as they
\* are; an invocation started after such a failure, while the cache holds
\* a token that has not reached its expiry, gets that token and sends no
\* grant request.
C29_ListingFailureKeepsCache ==
  [][\A p \in Procs :
       /\ ListingFailsNot401(p) => CacheUnchanged
       /\ (EndedOnListingFailure(p) /\ HoldsUnexpiredToken /\ started' # started) =>
            \A q \in Procs, u \in WellFormedSubredditUrls, l \in Limits :
              Start(q, u, l) =>
                /\ pc'[q] = "tokenSettled"
                /\ tokenResult'[q] = Resolved(redditAccessToken[1])
                /\ requests'[q].grant = 0
                /\ CacheUnchanged]_vars

\* One invocation obtained the token and ended on a listing answered 403;
\* the other has been handed the token the cache still holds, with no
\* grant request.
C29_Witness ==
  \E p, q \in Procs :
    /\ p # q
    /\ EndedOnListingFailure(p)
    /\ response[p].listing.status = 403
    /\ requests[p].grant = 1
    /\ HoldsUnexpiredToken
    /\ pc[q] = "tokenSettled"
    /\ requests[q].grant = 0
    /\ tokenResult[q] = Resolved(redditAccessToken[1])


(***************************************************************************)
(* Properties of every state scrapeSubredditAction returns                 *)
(***************************************************************************)
\* Exactly one of error and message is set, media is set exactly when error
\* is not, and a state with an error has neither media nor message.
WellFormedState(state) ==
  /\ (state.error # None) # (state.message # None)
  /\ (state.media # None) <=> (state.error = None)
  /\ state.error # None => (state.media = None /\ state.message = None)

\* C30: every state scrapeSubredditAction returns, on the validation
\* failures, on missing credentials, on an empty result, on success and on
\* a thrown error, and for every previous state, has exactly one of error
\* and message set and has media set exactly when error is not, so that
\* no media or message of the previous state is left in an error state;
\* the same holds of the state built for a null result.
C30_ReturnedStateIsWellFormed ==
  /\ actionPc = "returned" => WellFormedState(newState[1])
  /\ \A url \in FormUrls \ {None} :
       WellFormedState(AfterScrape(prevState, url[1], None, allowedHostnames, now))

\* scrapeTrendyImages threw while the previous state held media and a
\* message: the state returned has the error and neither of the two.
C30_Witness ==
  /\ actionPc = "returned"
  /\ scraped.state = "thrown"
  /\ prevState.media # None
  /\ prevState.media # Some(<<>>)
  /\ prevState.message # None
  /\ newState[1].error # None
  /\ newState[1].media = None
  /\ newState[1].message = None

=============================================================================
